---------------------------- MODULE Spec2Model ----------------------------
(***************************************************************************)
(* Model of the SAQ search core: the beam buffer SearchBuffer              *)
(* (saqlib/utils/buffer.hpp), the fast-scan cluster estimator              *)
(* CaqCluEstimator, and the aligned allocation and prefetch helpers of     *)
(* utils/memory.hpp.                                                       *)
(*                                                                         *)
(* A PID is a 32-bit unsigned integer.  It is kept as its two parts, the   *)
(* high bit (bit 31, the "checked" flag) and the low 31 bits, so that      *)
(* `id |= 1 << 31` and `id >> 31` are exact: [chk |-> 0..1, low |-> Nat].  *)
(* Distances are floats in the code; the model draws them from a small     *)
(* range of integers, ordered as the floats are (no NaN is drawn).         *)
(***************************************************************************)
EXTENDS Integers, Sequences, FiniteSets, TLC

(***************************************************************************)
(* Bounds of the model.                                                    *)
(***************************************************************************)
MaxCap == 2

MaxId == 2

MaxDist == 1

\* query and centroid coordinates are drawn from -MaxComp..MaxComp
MaxComp == 1

\* num_bits_ is drawn from {0, 1, MaxBits}
MaxBits == 2

\* at most MaxIns inserts are counted between two clears
MaxIns == 4

\* alignments are drawn from 2^1 .. 2^MaxAlignLog
MaxAlignLog == 2

\* sizeof(T) is drawn from 1..MaxSizeof
MaxSizeof == 2

\* element counts are drawn from 0..MaxElems
MaxElems == 2

\* num_lines is drawn from 0..MaxLines
MaxLines == 22

\* ptr is drawn from the starts of lines 0..MaxPtr
MaxPtr == 1

\* num_dim_padded_ is MaxPad * kDimPaddingSize
MaxPad == 1

\* clusters 1..MaxCluster, each of MaxBlock + 1 blocks of KFastScanSize vectors
MaxCluster == 2

MaxBlock == 1

\* setPruneBound(v) is called with v in 0..MaxVar
MaxVar == 1

\* the runtime counters are capped: at most MaxFast compFastDist calls and
\* MaxAcc compAccurateDist calls that reach the counter
MaxFast == 3

MaxAcc == 1

(***************************************************************************)
(* Program constants (defines.hpp).                                        *)
(***************************************************************************)
KFastScanSize == 32

kDimPaddingSize == 64

\* the top case label of the prefetch ladders
LadderTop == 20

\* ptr += 64 in each case of the ladders
LineBytes == 64

VARIABLES
    data,       \* data_     : 0..capacity_ -> Candidate (capacity_ + 1 slots)
    size,       \* size_
    cur,        \* cur_
    capacity,   \* capacity_
    ub,         \* TRUE once a call has read or written outside data_
    op,         \* the last SearchBuffer call made
    arg,        \* its arguments
    ret,        \* the PID the last pop() returned
    knn         \* what the last copy_results() wrote

\* the distances handed to insert since construction or the last clear(), in
\* non-decreasing order; it is recorded where the calls are counted
\* (SpecCounted) and is empty elsewhere
VARIABLE inserted

VARIABLES
    num_dim_padded,  \* num_dim_padded_
    num_bits,        \* num_bits_
    cfg,             \* cfg_ : dist_type, searcher_vars_bound_m
    query_data,      \* query_data_
    without_ip_prune_bound,
    ip_q_c,          \* ip_q_c_
    q_l2sqr,         \* q_l2sqr_
    lut,             \* lut_
    curr_cluster,    \* curr_cluster_
    runtime_statics, \* runtime_statics_ : fast_bitsum, acc_bitsum
    est_op,          \* the last CaqCluEstimator call made
    est_arg,         \* its block_idx, vec_idx, cluster or variance
    fst,             \* what the last call wrote to fst_distances, if it did
    est_ret,         \* what the last call returned, if it was compAccurateDist
    lut_read,        \* the per-block LUT state getExtIP read in the last call
    fast_blk,        \* block of the last compFastDist since prepare
    n_fast,          \* number of compFastDist calls made
    n_fast_out,      \* ... of them with fst_distances given
    n_acc            \* number of compAccurateDist calls that counted bits

VARIABLES
    m_op,         \* the last allocation call made
    m_arg,        \* its alignment, sizeof(T) and element count
    m_alloc,      \* what the underlying allocation returned: null or a block
    m_ret,        \* the pointer the call returned, with the block's bytes
    m_exc,        \* how the call ended: returned, threw bad_alloc, was killed
    m_nullwrite   \* the call wrote through a null pointer

VARIABLES
    pf_state,     \* mem_prefetch_l1/l2: idle, run (in the ladder), done
    pf_level,     \* which of the two is running
    pf_base,      \* the ptr it was called with
    pf_n,         \* num_lines
    pf_ptr,       \* ptr, as the ladder advances it
    pf_case,      \* the case label control is at
    pf_hints      \* the prefetch hints issued so far, in order

bufvars == <<data, size, cur, capacity, ub, op, arg, ret, knn>>

estvars == <<num_dim_padded, num_bits, cfg, query_data, without_ip_prune_bound,
             ip_q_c, q_l2sqr, lut, curr_cluster, runtime_statics, est_op,
             est_arg, fst, est_ret, lut_read, fast_blk, n_fast, n_fast_out,
             n_acc>>

memvars == <<m_op, m_arg, m_alloc, m_ret, m_exc, m_nullwrite>>

pfvars == <<pf_state, pf_level, pf_base, pf_n, pf_ptr, pf_case, pf_hints>>

vars == <<bufvars, inserted, estvars, memvars, pfvars>>

(***************************************************************************)
(* PID and Candidate (defines.hpp).                                        *)
(***************************************************************************)
PID(c, l) == [chk |-> c, low |-> l]

Candidate(id, distance) == [id |-> id, distance |-> distance]

\* Candidate() = default, value-initialised by std::vector(n): all zero.
ZeroCandidate == Candidate(PID(0, 0), 0)

\* ids with the high bit clear, as callers are meant to pass them
CleanIds == {PID(0, l) : l \in 1..MaxId}

\* ids with the high bit set
DirtyIds == {PID(1, l) : l \in 1..MaxId}

Dists == 0..MaxDist

\* std::numeric_limits<float>::max(): above every distance drawn
FloatMax == MaxDist + 1

NoPID == PID(0, 0)

NoArg == <<>>

(***************************************************************************)
(* SearchBuffer's private helpers.                                         *)
(***************************************************************************)
\* faulty variant: the bit is not set
set_checked_none(id) == id

set_checked(id) == [id EXCEPT !.chk = 1]

is_checked(id) == id.chk = 1

\* faulty variant: full only when the spare slot is used too
is_full_slots == size = capacity + 1

is_full == size = capacity

top_dist == IF is_full THEN data[size - 1].distance ELSE FloatMax

is_full_dist(dist) == dist > top_dist

RECURSIVE bs_loop(_, _, _)
bs_loop(lo, len, dist) ==
    IF len > 1
    THEN LET half == len \div 2
         IN  bs_loop(lo + (IF data[lo + half - 1].distance < dist THEN half ELSE 0),
                     len - half, dist)
    ELSE lo

\* faulty variant: the final adjustment of lo is left out
binary_search_noadjust(dist) == bs_loop(0, size, dist)

binary_search(dist) ==
    LET lo == bs_loop(0, size, dist)
    IN  IF lo < size /\ data[lo].distance < dist THEN lo + 1 ELSE lo

has_next == cur < size

next_id == data[cur].id

\* faulty variant: no memmove, the entry at lo is overwritten
shift_insert_overwrite(lo, c) == [data EXCEPT ![lo] = c]

\* memmove(&data_[lo + 1], &data_[lo], (size_ - lo) * sizeof(Candidate));
\* data_[lo] = Candidate(data_id, dist);
shift_insert(lo, c) ==
    [i \in DOMAIN data |->
        IF i = lo THEN c
        ELSE IF i > lo /\ i <= size THEN data[i - 1]
        ELSE data[i]]

\* faulty variant: the cursor is not moved back to an earlier insertion
new_cur_keep(lo) == cur

\* cur_ = lo < cur_ ? lo : cur_;
new_cur(lo) == IF lo < cur THEN lo ELSE cur

\* faulty variant: checked entries after the popped one are not skipped
skip_checked_none(d, c) == c

\* while (cur_ < size_ && is_checked(data_[cur_].id)) ++cur_;
RECURSIVE skip_checked(_, _)
skip_checked(d, c) ==
    IF c < size /\ c \in DOMAIN d /\ is_checked(d[c].id)
    THEN skip_checked(d, c + 1)
    ELSE c

(***************************************************************************)
(* Operations.                                                             *)
(***************************************************************************)
BufInit ==
    /\ capacity \in 1..MaxCap
    /\ data = [i \in 0..capacity |-> ZeroCandidate]
    /\ size = 0
    /\ cur = 0
    /\ ub = FALSE
    /\ op = "new"
    /\ arg = NoArg
    /\ ret = NoPID
    /\ knn = <<>>

\* void insert(PID data_id, float dist)
insert(data_id, dist) ==
    /\ ~ub
    /\ op' = "insert"
    /\ arg' = <<data_id, dist>>
    /\ ret' = NoPID
    /\ knn' = <<>>
    /\ capacity' = capacity
    /\ UNCHANGED <<estvars, memvars, pfvars>>
    /\ IF size > capacity
       THEN \* after a shrinking resize: data_[size_] lies outside the vector
            /\ ub' = TRUE
            /\ UNCHANGED <<data, size, cur>>
       ELSE /\ ub' = FALSE
            /\ IF is_full_dist(dist)
               THEN UNCHANGED <<data, size, cur>>
               ELSE LET lo == binary_search(dist)
                    IN  /\ data' = shift_insert(lo, Candidate(data_id, dist))
                        /\ size' = size + (IF size < capacity THEN 1 ELSE 0)
                        /\ cur' = new_cur(lo)

\* PID pop(), called only when has_next()
pop ==
    /\ ~ub
    /\ has_next
    /\ op' = "pop"
    /\ arg' = NoArg
    /\ knn' = <<>>
    /\ capacity' = capacity
    /\ size' = size
    /\ UNCHANGED <<estvars, memvars, pfvars>>
    /\ IF cur > capacity
       THEN /\ ub' = TRUE
            /\ UNCHANGED <<data, cur, ret>>
       ELSE LET d1 == [data EXCEPT ![cur].id = set_checked(@)]
                c1 == skip_checked(d1, cur + 1)
            IN  /\ ret' = data[cur].id
                /\ data' = d1
                /\ cur' = c1
                /\ ub' = (c1 < size /\ c1 \notin DOMAIN data)

\* void clear()
clear ==
    /\ ~ub
    /\ op' = "clear"
    /\ arg' = NoArg
    /\ ret' = NoPID
    /\ knn' = <<>>
    /\ size' = 0
    /\ cur' = 0
    /\ UNCHANGED <<data, capacity, ub>>
    /\ UNCHANGED <<estvars, memvars, pfvars>>

\* void copy_results(PID* knn) const
copy_results ==
    /\ ~ub
    /\ op' = "copy_results"
    /\ arg' = NoArg
    /\ ret' = NoPID
    /\ IF size > capacity + 1
       THEN /\ ub' = TRUE
            /\ knn' = <<>>
       ELSE /\ ub' = FALSE
            /\ knn' = [i \in 1..size |-> data[i - 1].id]
    /\ UNCHANGED <<data, size, cur, capacity>>
    /\ UNCHANGED <<estvars, memvars, pfvars>>

\* void resize(size_t new_size)
resize(new_size) ==
    /\ ~ub
    /\ op' = "resize"
    /\ arg' = <<new_size>>
    /\ ret' = NoPID
    /\ knn' = <<>>
    /\ capacity' = new_size
    /\ data' = [i \in 0..new_size |-> ZeroCandidate]
    /\ UNCHANGED <<size, cur, ub>>
    /\ UNCHANGED <<estvars, memvars, pfvars>>

(***************************************************************************)
(* The quantized data the estimator reads (BaseQuantizerData,              *)
(* CAQClusterData).  A vector of num_dim_padded_ floats is modelled by its *)
(* first coordinate, an integer; the other (padding) coordinates are zero. *)
(***************************************************************************)
Comps == (-MaxComp)..MaxComp

Clusters == 1..MaxCluster

Blocks == 0..MaxBlock

\* the lanes of a block the calls are made for: the first and the last
Lanes == {0, KFastScanSize - 1}

Dot(a, b) == a * b

\* faulty variant: no clamp, the second operand is passed through
MaxNoClamp(a, b) == b

Max(a, b) == IF a >= b THEN a ELSE b

\* data.rotator: none, or a 1x1 orthonormal P
NoRotator == [has |-> FALSE, P |-> 1]

Rotators == {NoRotator, [has |-> TRUE, P |-> 1], [has |-> TRUE, P |-> -1]}

\* cur_cluster->centroid()
centroid(c) == c - 1

\* cur_cluster->factor_o_l2norm(block_idx)[j]
factor_o_l2norm(c, block_idx, j) == (c + block_idx + j) % 3

\* cur_cluster->short_code(block_idx): the sign of lane j's first coordinate
short_code(c, block_idx, j) == IF (c + block_idx + j) % 2 = 0 THEN 1 ELSE -1

\* cur_cluster->long_code(vec_idx): the extended bit of the first coordinate
long_code(c, vec_idx) == (c + vec_idx) % 2

\* cur_cluster->long_factor(vec_idx).rescale
long_factor(c, vec_idx) == 1 + (vec_idx % 2)

NoCluster == 0

NoBlock == [clu |-> NoCluster, blk |-> 0]

Absent == <<>>

NoRet == 0

(***************************************************************************)
(* Lut (quantization/fastscan/lut.hpp): the query it was prepared for, its *)
(* squared norm, and the block its per-block state was loaded for.         *)
(***************************************************************************)
LutNew == [q |-> 0, q_l2sqr |-> 0, block |-> NoBlock]

LutPrepare(l, q) == [l EXCEPT !.q = q, !.q_l2sqr = Dot(q, q)]

getQL2Sqr(l) == l.q_l2sqr

\* the per-block state is loaded whether or not out is given
compFastIP(l, c, block_idx) == [l EXCEPT !.block = [clu |-> c, blk |-> block_idx]]

\* the 32 raw values compFastIP writes: twice the 1-bit inner products
compFastIP_out(l, c, block_idx) ==
    [j \in 0..(KFastScanSize - 1) |->
        2 * factor_o_l2norm(c, block_idx, j) * Dot(l.q, short_code(c, block_idx, j))]

\* inner product of the prepared query with lane j's reconstruction: the
\* short code of lane j of the loaded block, refined by the long code
getExtIP(l, code, j) ==
    Dot(l.q, short_code(l.block.clu, l.block.blk, j) + code)

(***************************************************************************)
(* CaqCluEstimator.                                                        *)
(***************************************************************************)
isIpDist == cfg.dist_type = "IP"

\* explicit CaqCluEstimator(data, cfg, query)
EstInit ==
    /\ num_dim_padded = MaxPad * kDimPaddingSize
    /\ num_bits \in {0, 1, MaxBits}
    /\ cfg \in [dist_type : {"L2Sqr", "IP"}, searcher_vars_bound_m : {1, 2}]
    /\ \E query \in Comps, rotator \in Rotators :
          query_data = IF rotator.has THEN query * rotator.P ELSE query
    /\ without_ip_prune_bound = 0
    /\ ip_q_c = 0
    /\ q_l2sqr = 0
    /\ lut = LutNew
    /\ curr_cluster = NoCluster
    /\ runtime_statics = [fast_bitsum |-> 0, acc_bitsum |-> 0]
    /\ est_op = "new"
    /\ est_arg = 0
    /\ fst = Absent
    /\ est_ret = NoRet
    /\ lut_read = NoBlock
    /\ fast_blk = NoBlock
    /\ n_fast = 0
    /\ n_fast_out = 0
    /\ n_acc = 0

\* void setPruneBound(float vars)
setPruneBound(v) ==
    /\ est_op' = "setPruneBound"
    /\ est_arg' = v
    /\ without_ip_prune_bound' = v * cfg.searcher_vars_bound_m
    /\ fst' = Absent
    /\ est_ret' = NoRet
    /\ lut_read' = NoBlock
    /\ UNCHANGED <<num_dim_padded, num_bits, cfg, query_data, ip_q_c, q_l2sqr,
                   lut, curr_cluster, runtime_statics, fast_blk, n_fast,
                   n_fast_out, n_acc>>
    /\ UNCHANGED <<bufvars, inserted, memvars, pfvars>>

\* faulty variant: the centroid is not subtracted
prepare_query_plain(c) == query_data

\* what prepare hands to lut_.prepare
prepare_query(c) ==
    IF isIpDist THEN query_data ELSE query_data - centroid(c)

\* void prepare(const CAQClusterData *cur_cluster)
prepare(c) ==
    /\ est_op' = "prepare"
    /\ est_arg' = c
    /\ curr_cluster' = c
    /\ ip_q_c' = IF isIpDist THEN Dot(query_data, centroid(c)) ELSE ip_q_c
    /\ lut' = LutPrepare(lut, prepare_query(c))
    /\ q_l2sqr' = getQL2Sqr(lut')
    /\ fast_blk' = NoBlock
    /\ fst' = Absent
    /\ est_ret' = NoRet
    /\ lut_read' = NoBlock
    /\ UNCHANGED <<num_dim_padded, num_bits, cfg, query_data,
                   without_ip_prune_bound, runtime_statics, n_fast, n_fast_out,
                   n_acc>>
    /\ UNCHANGED <<bufvars, inserted, memvars, pfvars>>

\* void varsEstDist(size_t block_idx, __m512 *fst_distances)
varsEstDist(block_idx, given) ==
    IF ~given THEN Absent
    ELSE IF isIpDist
    THEN [j \in 0..(KFastScanSize - 1) |-> ip_q_c - without_ip_prune_bound]
    ELSE [j \in 0..(KFastScanSize - 1) |->
            LET x == factor_o_l2norm(curr_cluster, block_idx, j)
            IN  Max(0, x * x + (q_l2sqr - 2 * without_ip_prune_bound))]

\* faulty variant: the nullptr return comes before the compFastIP call
lut_after_fast_if_given(block_idx, given) ==
    IF given THEN compFastIP(lut, curr_cluster, block_idx) ELSE lut

\* compFastDist, num_bits_ != 0: lut_ after the call
lut_after_fast(block_idx, given) == compFastIP(lut, curr_cluster, block_idx)

\* compFastDist, num_bits_ != 0: fst_distances after the call
fast_out(block_idx, given) ==
    IF ~given THEN Absent
    ELSE LET raw == compFastIP_out(lut, curr_cluster, block_idx)
         IN  IF isIpDist
             THEN [j \in 0..(KFastScanSize - 1) |-> (raw[j] \div 2) + ip_q_c]
             ELSE [j \in 0..(KFastScanSize - 1) |->
                     LET x == factor_o_l2norm(curr_cluster, block_idx, j)
                     IN  Max(0, x * x + (q_l2sqr - raw[j]))]

\* faulty variant: counts num_dim_padded_ bits, as the single-vector
\* estimator does
fast_bitsum_after_dim_only(given) ==
    IF given
    THEN runtime_statics.fast_bitsum + num_dim_padded
    ELSE runtime_statics.fast_bitsum

\* compFastDist, num_bits_ != 0: runtime_statics_.fast_bitsum after the call
fast_bitsum_after(given) ==
    IF given
    THEN runtime_statics.fast_bitsum + KFastScanSize * num_dim_padded
    ELSE runtime_statics.fast_bitsum

\* void compFastDist(size_t block_idx, __m512 *fst_distances), after prepare
compFastDist(block_idx, given) ==
    /\ curr_cluster # NoCluster
    /\ n_fast < MaxFast
    /\ est_op' = "compFastDist"
    /\ est_arg' = block_idx
    /\ fast_blk' = [clu |-> curr_cluster, blk |-> block_idx]
    /\ n_fast' = n_fast + 1
    /\ n_fast_out' = n_fast_out + (IF given THEN 1 ELSE 0)
    /\ IF num_bits = 0
       THEN /\ fst' = varsEstDist(block_idx, given)
            /\ UNCHANGED <<lut, runtime_statics>>
       ELSE /\ lut' = lut_after_fast(block_idx, given)
            /\ fst' = fast_out(block_idx, given)
            /\ runtime_statics' =
                  [runtime_statics EXCEPT !.fast_bitsum = fast_bitsum_after(given)]
    /\ est_ret' = NoRet
    /\ lut_read' = NoBlock
    /\ UNCHANGED <<num_dim_padded, num_bits, cfg, query_data,
                   without_ip_prune_bound, ip_q_c, q_l2sqr, curr_cluster,
                   n_acc>>
    /\ UNCHANGED <<bufvars, inserted, memvars, pfvars>>

\* float compAccurateDist(size_t vec_idx), called after prepare and, when
\* num_bits_ != 0, after compFastDist on the block of vec_idx
compAccurateDist(vec_idx) ==
    LET blk_idx == vec_idx \div KFastScanSize
        j       == vec_idx % KFastScanSize
        o_l2norm == factor_o_l2norm(curr_cluster, blk_idx, j)
        o_l2sqr == o_l2norm * o_l2norm
        ip_o_q  == long_factor(curr_cluster, vec_idx)
                     * getExtIP(lut, long_code(curr_cluster, vec_idx), j)
    IN  /\ curr_cluster # NoCluster
        /\ num_bits # 0 => fast_blk = [clu |-> curr_cluster, blk |-> blk_idx]
        /\ num_bits > 1 => n_acc < MaxAcc
        /\ est_op' = "compAccurateDist"
        /\ est_arg' = vec_idx
        /\ IF num_bits = 0
           THEN /\ est_ret' = IF isIpDist THEN ip_q_c ELSE o_l2sqr + q_l2sqr
                /\ lut_read' = NoBlock
                /\ UNCHANGED <<runtime_statics, n_acc>>
           ELSE /\ lut_read' = lut.block
                /\ runtime_statics' =
                      [runtime_statics EXCEPT
                          !.acc_bitsum = @ + num_dim_padded * (num_bits - 1)]
                /\ n_acc' = n_acc + (IF num_bits > 1 THEN 1 ELSE 0)
                /\ est_ret' = IF cfg.dist_type = "IP"
                              THEN ip_o_q + ip_q_c
                              ELSE o_l2sqr + q_l2sqr - 2 * ip_o_q
        /\ fst' = Absent
        /\ UNCHANGED <<num_dim_padded, num_bits, cfg, query_data,
                       without_ip_prune_bound, ip_q_c, q_l2sqr, lut,
                       curr_cluster, fast_blk, n_fast, n_fast_out>>
        /\ UNCHANGED <<bufvars, inserted, memvars, pfvars>>

SetPruneBound == \E v \in 0..MaxVar : setPruneBound(v)

Prepare == \E c \in Clusters : prepare(c)

CompFastDist == \E b \in Blocks, given \in BOOLEAN : compFastDist(b, given)

CompAccurateDist ==
    \E b \in Blocks, j \in Lanes : compAccurateDist(b * KFastScanSize + j)

(***************************************************************************)
(* Aligned allocation and the prefetch ladders (utils/memory.hpp).         *)
(*                                                                         *)
(* A pointer is Null or a block of bytes.  The bytes of a block that       *)
(* aligned_alloc or malloc hands out are not initialised: each of them is  *)
(* any value, 0 or not (1 stands for every value that is not 0).           *)
(***************************************************************************)
Alignments == {2 ^ k : k \in 1..MaxAlignLog}

UninitBytes == {0, 1}

Null == [ptr |-> "null", bytes |-> <<>>]

\* utils::rd_up_to_multiple_of (utils/tools.hpp)
rd_up_to_multiple_of(x, a) == ((x + a - 1) \div a) * a

\* std::aligned_alloc(alignment, nbytes): null, or a block with any content
aligned_alloc(alignment, nbytes) ==
    {Null} \cup {[ptr |-> "block", bytes |-> b] : b \in [1..nbytes -> UninitBytes]}

\* std::malloc(nbytes)
malloc(nbytes) ==
    {Null} \cup {[ptr |-> "block", bytes |-> b] : b \in [1..nbytes -> UninitBytes]}

\* std::memset(p, v, n) on a block: its first n bytes become v
memset(p, v, n) ==
    [p EXCEPT !.bytes = [i \in DOMAIN @ |-> IF i <= n THEN v ELSE @[i]]]

\* align_mm<alignment, T>(size), with sizeof(T) = size_of and size = nelem.  madvise only
\* advises and changes nothing here.  With a null p and nelem > 0 the memset
\* writes through the null pointer: the call is killed, or goes on to return p.
align_mm(alignment, size_of, nelem) ==
    LET nbytes == rd_up_to_multiple_of(nelem * size_of, alignment)
    IN  \E p \in aligned_alloc(alignment, nbytes) :
            /\ m_op' = "align_mm"
            /\ m_arg' = [alignment |-> alignment, size_of |-> size_of, size |-> nelem]
            /\ m_alloc' = p.ptr
            /\ IF p = Null
                  THEN /\ m_nullwrite' = (nelem > 0)
                       /\ m_ret' = Null
                       /\ m_exc' \in IF nelem > 0 THEN {"none", "killed"} ELSE {"none"}
                  ELSE /\ m_nullwrite' = FALSE
                       /\ m_ret' = memset(p, 0, nelem)
                       /\ m_exc' = "none"
            /\ UNCHANGED <<bufvars, inserted, estvars, pfvars>>

\* AlignedAllocator<T, alignment>::allocate(n)
allocate(alignment, size_of, n) ==
    LET nbytes == rd_up_to_multiple_of(n * size_of, alignment)
    IN  \E p \in aligned_alloc(alignment, nbytes) :
            /\ m_op' = "allocate"
            /\ m_arg' = [alignment |-> alignment, size_of |-> size_of, size |-> n]
            /\ m_alloc' = p.ptr
            /\ m_nullwrite' = FALSE
            /\ m_ret' = p
            /\ m_exc' = "none"
            /\ UNCHANGED <<bufvars, inserted, estvars, pfvars>>

\* make_unique_array<T>(size, alignment); alignment 0 is std::malloc
make_unique_array(size_of, nelem, alignment) ==
    /\ m_op' = "make_unique_array"
    /\ m_arg' = [alignment |-> alignment, size_of |-> size_of, size |-> nelem]
    /\ m_nullwrite' = FALSE
    /\ IF nelem = 0
          THEN /\ m_alloc' = "none"
               /\ m_ret' = Null
               /\ m_exc' = "none"
          ELSE \E raw_ptr \in
                    IF alignment # 0
                       THEN aligned_alloc(alignment,
                                rd_up_to_multiple_of(nelem * size_of, alignment))
                       ELSE malloc(nelem * size_of) :
                  /\ m_alloc' = raw_ptr.ptr
                  /\ IF raw_ptr = Null
                        THEN /\ m_exc' = "bad_alloc"
                             /\ m_ret' = Null
                        ELSE /\ m_exc' = "none"
                             /\ m_ret' = raw_ptr
    /\ UNCHANGED <<bufvars, inserted, estvars, pfvars>>

AlignMm ==
    \E a \in Alignments, s \in 1..MaxSizeof, n \in 0..MaxElems : align_mm(a, s, n)

Allocate ==
    \E a \in Alignments, s \in 1..MaxSizeof, n \in 0..MaxElems : allocate(a, s, n)

MakeUniqueArray ==
    \E a \in Alignments \cup {0}, s \in 1..MaxSizeof, n \in 0..MaxElems :
        make_unique_array(s, n, a)

MemIdle ==
    /\ m_op = "none"
    /\ m_arg = [alignment |-> 0, size_of |-> 0, size |-> 0]
    /\ m_alloc = "none"
    /\ m_ret = Null
    /\ m_exc = "none"
    /\ m_nullwrite = FALSE

\* prefetch_l1(addr), prefetch_l2(addr): one hint for the line at addr
prefetch_l1(addr) == [hint |-> "T0", addr |-> addr]

prefetch_l2(addr) == [hint |-> "T1", addr |-> addr]

\* faulty variant: no dispatch, the ladder is always entered at its top
switch_entry_top(num_lines) == LadderTop

\* switch (num_lines): the case label the ladder is entered at; default
\* falls through to the top case
switch_entry(num_lines) ==
    IF num_lines > LadderTop THEN LadderTop ELSE num_lines

mem_prefetch(level, ptr, num_lines) ==
    /\ pf_state # "run"
    /\ pf_state' = "run"
    /\ pf_level' = level
    /\ pf_base' = ptr
    /\ pf_n' = num_lines
    /\ pf_ptr' = ptr
    /\ pf_case' = switch_entry(num_lines)
    /\ pf_hints' = <<>>
    /\ UNCHANGED <<bufvars, inserted, estvars, memvars>>

mem_prefetch_l1(ptr, num_lines) == mem_prefetch("l1", ptr, num_lines)

mem_prefetch_l2(ptr, num_lines) == mem_prefetch("l2", ptr, num_lines)

\* case k, k = 20..1: prefetch(ptr); ptr += 64; fall through to case k - 1
ladder_case ==
    /\ pf_state = "run"
    /\ pf_case >= 1
    /\ pf_hints' = Append(pf_hints, IF pf_level = "l1" THEN prefetch_l1(pf_ptr)
                                                      ELSE prefetch_l2(pf_ptr))
    /\ pf_ptr' = pf_ptr + LineBytes
    /\ pf_case' = pf_case - 1
    /\ UNCHANGED <<pf_state, pf_level, pf_base, pf_n>>
    /\ UNCHANGED <<bufvars, inserted, estvars, memvars>>

\* case 0: break
ladder_break ==
    /\ pf_state = "run"
    /\ pf_case = 0
    /\ pf_state' = "done"
    /\ UNCHANGED <<pf_level, pf_base, pf_n, pf_ptr, pf_case, pf_hints>>
    /\ UNCHANGED <<bufvars, inserted, estvars, memvars>>

MemPrefetchL1 ==
    \E l \in 0..MaxPtr, n \in 0..MaxLines : mem_prefetch_l1(l * LineBytes, n)

MemPrefetchL2 ==
    \E l \in 0..MaxPtr, n \in 0..MaxLines : mem_prefetch_l2(l * LineBytes, n)

LadderCase == ladder_case

LadderBreak == ladder_break

PfIdle ==
    /\ pf_state = "idle"
    /\ pf_level = "none"
    /\ pf_base = 0
    /\ pf_n = 0
    /\ pf_ptr = 0
    /\ pf_case = 0
    /\ pf_hints = <<>>

\* no estimator is in use while the buffer is exercised, and no buffer while
\* the estimator is
EstIdle ==
    /\ num_dim_padded = 0
    /\ num_bits = 0
    /\ cfg = [dist_type |-> "L2Sqr", searcher_vars_bound_m |-> 1]
    /\ query_data = 0
    /\ without_ip_prune_bound = 0
    /\ ip_q_c = 0
    /\ q_l2sqr = 0
    /\ lut = LutNew
    /\ curr_cluster = NoCluster
    /\ runtime_statics = [fast_bitsum |-> 0, acc_bitsum |-> 0]
    /\ est_op = "none"
    /\ est_arg = 0
    /\ fst = Absent
    /\ est_ret = NoRet
    /\ lut_read = NoBlock
    /\ fast_blk = NoBlock
    /\ n_fast = 0
    /\ n_fast_out = 0
    /\ n_acc = 0

BufIdle ==
    /\ capacity = 0
    /\ data = [i \in 0..0 |-> ZeroCandidate]
    /\ size = 0
    /\ cur = 0
    /\ ub = FALSE
    /\ op = "none"
    /\ arg = NoArg
    /\ ret = NoPID
    /\ knn = <<>>
    /\ inserted = <<>>

Init == BufInit /\ inserted = <<>> /\ EstIdle /\ MemIdle /\ PfIdle

\* the estimator: construction, then setPruneBound, prepare, compFastDist
\* and compAccurateDist in the order its contract asks for
InitEst == EstInit /\ BufIdle /\ MemIdle /\ PfIdle

NextEst == SetPruneBound \/ Prepare \/ CompFastDist \/ CompAccurateDist

SpecEst == InitEst /\ [][NextEst]_vars

Insert ==
    \E id \in CleanIds, dist \in Dists : insert(id, dist) /\ UNCHANGED inserted

InsertDirty ==
    \E id \in DirtyIds, dist \in Dists : insert(id, dist) /\ UNCHANGED inserted

Pop == pop /\ UNCHANGED inserted

Clear == clear /\ inserted' = <<>>

CopyResults == copy_results /\ UNCHANGED inserted

Resize == \E c \in 1..MaxCap : resize(c) /\ UNCHANGED inserted

\* insert (ids with the high bit clear), pop, clear, copy_results
Next == Insert \/ Pop \/ Clear \/ CopyResults

Spec == Init /\ [][Next]_vars

\* the same, and insert is also called with ids whose high bit is set
NextDirty == Insert \/ InsertDirty \/ Pop \/ Clear \/ CopyResults

SpecDirty == Init /\ [][NextDirty]_vars

\* the same as Spec, and resize
NextResize == Insert \/ Pop \/ Clear \/ CopyResults \/ Resize

SpecResize == Init /\ [][NextResize]_vars

\* s with d put in at its place in the order
sorted_add(s, d) ==
    LET k == Cardinality({i \in DOMAIN s : s[i] <= d})
    IN  [i \in 1..(Len(s) + 1) |->
            IF i <= k THEN s[i] ELSE IF i = k + 1 THEN d ELSE s[i - 1]]

\* insert, with the distance recorded; at most MaxIns calls between clears.
\* insert and pop look at no bit of an id but its high one, so two ids are
\* enough to tell entries of one distance apart.
InsertCounted ==
    \E id \in {PID(0, 1), PID(0, 2)}, dist \in Dists :
        /\ Len(inserted) < MaxIns
        /\ insert(id, dist)
        /\ inserted' = sorted_add(inserted, dist)

\* insert, pop and clear, the inserts since the last clear counted
NextCounted == InsertCounted \/ Pop \/ Clear

SpecCounted == Init /\ [][NextCounted]_vars

\* the allocation entry points, called in any order
InitMem == MemIdle /\ BufIdle /\ EstIdle /\ PfIdle

NextMem == AlignMm \/ Allocate \/ MakeUniqueArray

SpecMem == InitMem /\ [][NextMem]_vars

\* the prefetch ladders: a call, then its cases one by one down to the break
InitPrefetch == PfIdle /\ BufIdle /\ EstIdle /\ MemIdle

NextPrefetch == MemPrefetchL1 \/ MemPrefetchL2 \/ LadderCase \/ LadderBreak

SpecPrefetch == InitPrefetch /\ [][NextPrefetch]_vars


(***************************************************************************)
(* Claims about SearchBuffer.                                              *)
(***************************************************************************)

\* C1: after any sequence of insert (ids with the high bit clear) and pop
\* calls, the entries [0, size) are non-decreasing by distance.
C1_Sorted ==
    \A i \in 0..(size - 2) : data[i].distance <= data[i + 1].distance

\* a buffer of two or more entries of different distances, some already
\* popped, right after an insert
C1_Witness ==
    /\ op = "insert"
    /\ size >= 2
    /\ data[0].distance < data[size - 1].distance
    /\ \E i \in 0..(size - 1) : is_checked(data[i].id)

\* C2 as stated: on a full buffer, insert(id, dist) with dist >= top_dist(),
\* equality included, changes neither data_, size_ nor cur_.
C2_RejectAtOrAboveTop ==
    [][(/\ op' = "insert"
        /\ size = capacity
        /\ arg'[2] >= data[size - 1].distance)
       => /\ size' = size
          /\ cur' = cur
          /\ \A i \in 0..(size - 1) : data'[i] = data[i]]_vars

\* C2 amended: on a full buffer, insert(id, dist) with dist > top_dist()
\* (strictly) changes neither data_, size_ nor cur_.
C2_RejectAboveTop ==
    [][(/\ op' = "insert"
        /\ size = capacity
        /\ arg'[2] > data[size - 1].distance)
       => UNCHANGED <<data, size, cur>>]_vars

\* a full buffer whose last call was an insert above its top distance
C2_Witness ==
    /\ op = "insert"
    /\ size = capacity
    /\ arg[2] > data[size - 1].distance

\* C3: when has_next(), pop() returns the id of the unchecked entry of least
\* distance (the entry at cur_, with no unchecked entry before it), which is
\* what next_id() returned before the call, and sets that entry's checked bit.
C3_PopMinUnchecked ==
    [][op' = "pop" =>
        /\ ret' = next_id
        /\ ~is_checked(ret')
        /\ \A i \in 0..(size - 1) :
              ~is_checked(data[i].id) =>
                  /\ i >= cur
                  /\ data[cur].distance <= data[i].distance
        /\ data'[cur].id = set_checked(ret')
        /\ data'[cur].distance = data[cur].distance]_vars

\* a pop that returned an entry and left another unchecked entry to pop
C3_Witness ==
    /\ op = "pop"
    /\ has_next
    /\ cur >= 1
    /\ ~is_checked(ret)
    /\ data[cur - 1].id = set_checked(ret)

\* C4: after any sequence of insert, pop and clear calls,
\* cur <= size <= C and every entry before cur has the checked bit set.
C4_Structure ==
    /\ cur <= size
    /\ size <= capacity
    /\ \A i \in 0..(cur - 1) : is_checked(data[i].id)

\* a buffer that was cleared (a checked entry is left beyond size) and then
\* refilled and popped
C4_Witness ==
    /\ size < capacity
    /\ cur >= 1
    /\ \E i \in size..capacity : is_checked(data[i].id)

\* C5 as stated: copy_results writes exactly size ids, in stored order, each
\* with the checked bit masked off.
C5_CopyMasked ==
    op = "copy_results" =>
        /\ Len(knn) = size
        /\ \A i \in 1..Len(knn) :
              /\ knn[i].low = data[i - 1].id.low
              /\ knn[i].chk = 0

\* C6 as stated: an insert of an id whose high bit is set is either rejected
\* (data_, size_ and cur_ unchanged) or stored with the bit cleared; the entry
\* at cur_ is unchecked whenever has_next(), and pop never returns an id with
\* the high bit set.
C6_DirtyInsertHarmless ==
    [][/\ (op' = "insert" /\ is_checked(arg'[1])) =>
             \/ UNCHANGED <<data, size, cur>>
             \/ data' = shift_insert(binary_search(arg'[2]),
                                     Candidate(PID(0, arg'[1].low), arg'[2]))
       /\ (cur' < size' => ~is_checked(data'[cur'].id))
       /\ (op' = "pop" => ~is_checked(ret'))]_vars

\* C7 as stated: after resize(C') the buffer holds no candidate (size = 0,
\* cur = 0, has_next() false, top_dist() the not-full value, size <= C'), and
\* no later call reads or writes outside the C' + 1 slots.
C7_ResizeDiscards ==
    /\ op = "resize" =>
          /\ size = 0
          /\ cur = 0
          /\ ~has_next
          /\ size <= capacity
          /\ top_dist = FloatMax
    /\ ~ub

(***************************************************************************)
(* Claims about CaqCluEstimator.                                           *)
(***************************************************************************)

\* C8: with B >= 1, every compFastDist(blk, out) after prepare leaves the
\* LUT's per-block state loaded for block blk of the prepared cluster, also
\* when out is absent; and every compAccurateDist(v) made in the order
\* prepare -> (compFastDist(blk) -> compAccurateDist(v in blk))* reads the
\* state of block v / 32 of the prepared cluster.
C8_BlockStateLoaded ==
    /\ (num_bits >= 1 /\ est_op = "compFastDist") =>
          lut.block = [clu |-> curr_cluster, blk |-> est_arg]
    /\ (num_bits >= 1 /\ est_op = "compAccurateDist") =>
          lut_read = [clu |-> curr_cluster, blk |-> est_arg \div KFastScanSize]

\* a compAccurateDist on block 1 or later, after two compFastDist calls
\* that were both made without out
C8_Witness ==
    /\ num_bits >= 1
    /\ est_op = "compAccurateDist"
    /\ est_arg >= KFastScanSize
    /\ n_fast >= 2
    /\ n_fast_out = 0

\* C9 as stated: with B >= 1, fast_bitsum is 32 * D times the number of
\* compFastDist calls made, out given or absent.
C9_CountsEveryCall ==
    num_bits >= 1 =>
        runtime_statics.fast_bitsum = KFastScanSize * num_dim_padded * n_fast

\* C9 amended: with B >= 1, fast_bitsum is 32 * D times the number of
\* compFastDist calls made with out given; a call with out absent adds
\* nothing, and no other operation changes the counter.
C9_CountsCallsWithOut ==
    num_bits >= 1 =>
        runtime_statics.fast_bitsum = KFastScanSize * num_dim_padded * n_fast_out

\* compFastDist was called with out and without
C9_Witness ==
    /\ num_bits >= 1
    /\ n_fast_out >= 1
    /\ n_fast > n_fast_out

\* C10 as stated: L2 squared, B = 0, zero query: after prepare(cluster),
\* compAccurateDist(v) returns the square of the stored norm of v.
C10_ZeroQueryNormOnly ==
    (/\ cfg.dist_type = "L2Sqr"
     /\ num_bits = 0
     /\ query_data = 0
     /\ est_op = "compAccurateDist")
    => LET x == factor_o_l2norm(curr_cluster, est_arg \div KFastScanSize,
                                est_arg % KFastScanSize)
       IN  est_ret = x * x

\* C10 amended: L2 squared, B = 0, zero query: after prepare(cluster),
\* compAccurateDist(v) returns the square of the stored norm of v plus the
\* squared norm of the cluster's centroid.
C10_ZeroQueryNormPlusCentroid ==
    (/\ cfg.dist_type = "L2Sqr"
     /\ num_bits = 0
     /\ query_data = 0
     /\ est_op = "compAccurateDist")
    => LET x == factor_o_l2norm(curr_cluster, est_arg \div KFastScanSize,
                                est_arg % KFastScanSize)
           c == centroid(curr_cluster)
       IN  est_ret = x * x + Dot(c, c)

\* such a call on a cluster whose centroid is not zero, for a vector whose
\* norm is not zero
C10_Witness ==
    /\ cfg.dist_type = "L2Sqr"
    /\ num_bits = 0
    /\ query_data = 0
    /\ est_op = "compAccurateDist"
    /\ centroid(curr_cluster) # 0
    /\ factor_o_l2norm(curr_cluster, est_arg \div KFastScanSize,
                       est_arg % KFastScanSize) # 0

\* C11 as stated: in L2 squared mode no value written by varsEstDist or
\* compFastDist and no value returned by compAccurateDist is negative.
C11_NothingNegative ==
    cfg.dist_type = "L2Sqr" =>
        /\ fst # Absent => \A j \in DOMAIN fst : fst[j] >= 0
        /\ est_op = "compAccurateDist" => est_ret >= 0

\* C11 amended: in L2 squared mode no value written by varsEstDist or
\* compFastDist is negative, and with B = 0 no value returned by
\* compAccurateDist is negative.
C11_FastNotNegative ==
    cfg.dist_type = "L2Sqr" =>
        /\ fst # Absent => \A j \in DOMAIN fst : fst[j] >= 0
        /\ (est_op = "compAccurateDist" /\ num_bits = 0) => est_ret >= 0

\* compFastDist with B = 0 hands over to varsEstDist, which writes a lane as 0
\* where the sum before the clamp is negative
C11_Witness ==
    /\ cfg.dist_type = "L2Sqr"
    /\ est_op = "compFastDist"
    /\ num_bits = 0
    /\ fst # Absent
    /\ \E j \in DOMAIN fst :
          LET x == factor_o_l2norm(curr_cluster, est_arg, j)
          IN  /\ x * x + (q_l2sqr - 2 * without_ip_prune_bound) < 0
              /\ fst[j] = 0

(***************************************************************************)
(* Claims about the memory helpers.                                        *)
(***************************************************************************)
\* the hint the running ladder issues i-th (i = 1, 2, ...)
C12_Hint(i) ==
    IF pf_level = "l1" THEN prefetch_l1(pf_base + LineBytes * (i - 1))
                       ELSE prefetch_l2(pf_base + LineBytes * (i - 1))

\* C12: for every n in 0..20, mem_prefetch_l1(ptr, n) and
\* mem_prefetch_l2(ptr, n) issue exactly n hints, at ptr + 64*i for
\* i = 0..n-1 in increasing order, and touch no line beyond the n-th: while
\* the ladder runs the hints issued are the first ones of that list, and when
\* it is done they are all n of them.
C12_LadderIssuesN ==
    (pf_state \in {"run", "done"} /\ pf_n \in 0..LadderTop) =>
        /\ Len(pf_hints) <= pf_n
        /\ \A i \in 1..Len(pf_hints) : pf_hints[i] = C12_Hint(i)
        /\ pf_state = "done" => Len(pf_hints) = pf_n

C12_Witness ==
    /\ pf_state = "done"
    /\ pf_level = "l2"
    /\ pf_base > 0
    /\ pf_n \in 1..(LadderTop - 1)
    /\ Len(pf_hints) = pf_n

\* C13: align_mm<A, T>(N) returns a buffer of N elements of T whose
\* N * sizeof(T) bytes are all zero.
C13_ZeroInitialized ==
    (m_op = "align_mm" /\ m_ret # Null) =>
        \A i \in 1..(m_arg.size * m_arg.size_of) : m_ret.bytes[i] = 0

\* C14: whenever the underlying allocation returns null, the entry point
\* (align_mm, AlignedAllocator::allocate, make_unique_array with size > 0)
\* ends with an allocation error and has written nothing through the null
\* pointer.  Stated for the calls that ask for at least one element.
C14_NullPropagated ==
    (m_alloc = "null" /\ m_arg.size > 0) =>
        (m_exc = "bad_alloc" /\ ~m_nullwrite)

(***************************************************************************)
(* Claims about SearchBuffer, continued.                                   *)
(***************************************************************************)
\* the number of entries in [0, size) of distance d
C15_Stored(d) == Cardinality({i \in 0..(size - 1) : data[i].distance = d})

\* the number of distances d among the k smallest recorded ones
C15_Smallest(k, d) == Cardinality({i \in 1..k : inserted[i] = d})

\* size = min(C, n), and the distances stored are the min(C, n) smallest of
\* the n recorded
C15_SmallestStored ==
    LET n == Len(inserted)
        k == IF n < capacity THEN n ELSE capacity
    IN  /\ size = k
        /\ \A d \in Dists : C15_Stored(d) = C15_Smallest(k, d)

\* C15: on a buffer of capacity C >= 1, after any interleaving of n insert
\* calls and pop calls since construction or the last clear, size = min(C, n)
\* and the multiset of distances stored in [0, size) is that of the min(C, n)
\* smallest of the n inserted distances; an insert into a full buffer with
\* dist below top_dist() drops the last entry and no other: every entry
\* before the last is still stored, checked bit and all, next to the new one.
C15_KeepsSmallest ==
    [][ /\ C15_SmallestStored'
        /\ (op' = "insert" /\ size = capacity /\ arg'[2] < top_dist) =>
              \E lo \in 0..(size - 1) :
                  /\ data'[lo] = Candidate(arg'[1], arg'[2])
                  /\ \A i \in 0..(size - 2) :
                        data'[IF i < lo THEN i ELSE i + 1] = data[i]
      ]_vars

\* more inserts than the capacity, one of them evicted, an entry popped
C15_Witness ==
    /\ op = "insert"
    /\ size = capacity
    /\ Len(inserted) > capacity
    /\ inserted[Len(inserted)] > data[size - 1].distance
    /\ \E i \in 0..(size - 1) : is_checked(data[i].id)
    /\ \E i \in 0..(size - 1) : ~is_checked(data[i].id)

\* while (has_next()) pop(); run on the array d with the cursor at c, no
\* insert in between: the indices of the entries the pops return, in order,
\* and the cursor the loop ends with
RECURSIVE drain(_, _, _)
drain(d, c, popped) ==
    IF c < size
    THEN LET d1 == [d EXCEPT ![c].id = set_checked(@)]
         IN  drain(d1, skip_checked(d1, c + 1), Append(popped, c))
    ELSE [popped |-> popped, cur |-> c]

\* the stored entries not yet checked
unchecked == {i \in 0..(size - 1) : ~is_checked(data[i].id)}

\* the drain loop of the state: k pops, one for each of the k unchecked
\* entries, in non-decreasing distance order, has_next() false at the end
C16_DrainsEachOnce ==
    LET r == drain(data, cur, <<>>)
    IN  /\ Len(r.popped) = Cardinality(unchecked)
        /\ {r.popped[i] : i \in DOMAIN r.popped} = unchecked
        /\ \A i, j \in DOMAIN r.popped :
              i < j => /\ r.popped[i] < r.popped[j]
                       /\ data[r.popped[i]].distance <= data[r.popped[j]].distance
        /\ ~(r.cur < size)

\* C16: from any reachable state with k unchecked stored entries, the loop
\* `while has_next(): pop()` with no insert in between ends after exactly k
\* pops with has_next() false and returns each of the k entries once, in
\* non-decreasing distance order; and across inserts and pops no stored entry
\* is returned twice: pop returns an entry that is not checked and leaves it
\* checked, and insert moves the entries it keeps with their checked bit.
C16_NoEntryTwice ==
    /\ []C16_DrainsEachOnce
    /\ [][
        /\ op' = "pop" =>
              /\ ~is_checked(data[cur].id)
              /\ ret' = data[cur].id
              /\ is_checked(data'[cur].id)
              /\ \A i \in 0..(size - 1) : i # cur => data'[i] = data[i]
        /\ (op' = "insert" /\ data' # data) =>
              \E lo \in 0..size :
                  /\ ~is_checked(data'[lo].id)
                  /\ \A i \in 0..(size' - 1) :
                        i # lo => data'[i] = data[IF i < lo THEN i ELSE i - 1]
      ]_vars

\* an unchecked entry at the cursor and a checked one behind it, which the
\* drain loop has to step over
C16_Witness ==
    /\ cur < size
    /\ \E i \in (cur + 1)..(size - 1) : is_checked(data[i].id)
    /\ Len(drain(data, cur, <<>>).popped) = Cardinality(unchecked)
    /\ Cardinality(unchecked) >= 1

=============================================================================
